---- MODULE Spec2Model ----
(***************************************************************************)
(* MeshSwap: the maker step (1inch/src/maker.ts), the taker step           *)
(* (1inch/src/taker.ts), the Resolver transaction builder, the operator    *)
(* scripts of demo_script/, and the two escrows they act on.               *)
(*                                                                         *)
(* Time is in seconds.  `wall` is the wall clock the processes sleep on;   *)
(* each chain's time is the timestamp of its latest block, which lags the  *)
(* wall clock by less than one block time.                                 *)
(***************************************************************************)
EXTENDS Integers, Sequences, FiniteSets, TLC

VARIABLES
    wall,           \* wall clock, seconds
    blockTime,      \* block time of the source chain (anvil --block-time)
    offsets,        \* the relative offsets handed to TimeLocks.new
    secret,         \* public_params.json: secret_hash, read by the maker
    makerPc,        \* position of maker.ts main()
    hashLockSecret, \* the maker's local: the secret_hash it read (0 before)
    order,          \* the CrossChainOrder built by make_order (<<>> before)
    orderFile,      \* content of order.json (<<>> while not written)
    takerPc,        \* position of taker.ts main()
    orderData,      \* the taker's parsed order.json
    srcEscrowEvent, \* immutables the taker decoded from SrcEscrowCreated
    srcEscrowAddress, \* the escrow address the taker computed from them
    sleepLeft,      \* seconds left of the taker's setTimeout
    srcEscrow,      \* source escrow on the EVM chain
    dstEscrow,      \* destination escrow (Bitcoin HTLC)
    txLog,          \* kinds of transaction submitted so far, with their sender
    wdSubmit,       \* what held when the taker submitted the source withdrawal
    hashIn,         \* hash check: the secret committed and the one presented
    hashOut,        \* hash check: the commitment and the verdict
    cancelBuilt,    \* what held when a cancel transaction was built and sent
    dstSecret,      \* the secret presented by the destination withdrawal
    orders,         \* the orders built so far, one per maker run that built one
    srcCreated,     \* number of source escrows created by fills
    taker2,         \* a second execution of taker.ts main(): its position and locals
    takerError,     \* the error the taker's catch handler received
    privateKey,     \* evm: the privateKey argument of the constructors
    contractName,   \* evm: the contractName argument of deployContract
    constructorArgs, \* evm: the constructorArgs argument of deployContract
    artifacts,      \* evm: contract names with an artifact file under out/
    meshSwap,       \* evm: the MeshSwap instance
    deployer,       \* evm: the ContractDeployer instance
    deployOut,      \* evm: how deployContract ended
    verifyOut,      \* evm: how verifyDeployment ended
    blockLogs,      \* events: the SrcEscrowCreated logs of the fill's block
    ownOrder,       \* events: the terms of the order the taker filled
    eventTaker,     \* events: the taker's position and the event it decoded
    daemons,        \* regtest: running bitcoind regtest processes
    loops,          \* regtest: running automine loops, with their counters
    startCalls,     \* regtest: runs of start_regtest.sh so far
    setupRuns,      \* regtest: runs that mined the first blocks and funded the wallets
    rescueArgs,     \* factory: the two rescue delays passed to the constructor
    factory,        \* factory: the EscrowFactory constructed (<<>> before)
    routeIn,        \* routing: the side and the operation asked of the Resolver
    routeOut        \* routing: the transaction request the Resolver built

vars == <<wall, blockTime, offsets, secret, makerPc, hashLockSecret, order, orderFile, takerPc,
          orderData, srcEscrowEvent, srcEscrowAddress, sleepLeft, srcEscrow, dstEscrow, txLog,
          wdSubmit, hashIn, hashOut, cancelBuilt, dstSecret, orders, srcCreated,
          taker2, takerError, privateKey, contractName, constructorArgs,
          artifacts, meshSwap, deployer, deployOut, verifyOut, blockLogs,
          ownOrder, eventTaker, daemons, loops, startCalls, setupRuns,
          rescueArgs, factory, routeIn, routeOut>>

protoVars == <<wall, blockTime, offsets, secret, makerPc, hashLockSecret, order, orderFile,
               takerPc, orderData, srcEscrowEvent, srcEscrowAddress, sleepLeft,
               srcEscrow, dstEscrow, txLog, wdSubmit>>

hashVars == <<hashIn, hashOut>>

auxVars == <<cancelBuilt, dstSecret, orders, srcCreated, taker2, takerError>>

deployVars == <<privateKey, contractName, constructorArgs, artifacts, meshSwap,
                deployer, deployOut>>

eventVars == <<blockLogs, ownOrder, eventTaker>>

regtestVars == <<daemons, loops, startCalls, setupRuns>>

factoryVars == <<rescueArgs, factory>>

routeVars == <<routeIn, routeOut>>

\* The variables of the utilities around the swap.
toolVars == <<verifyOut, eventVars, regtestVars, factoryVars, routeVars>>

\* The variables of the swap, of the hash check and of the evm deployment.
coreVars == <<protoVars, hashVars, auxVars, deployVars>>

---------------------------------------------------------------------------
(* Bounds of the model *)

MaxTime == 133           \* the wall clock stops here
MaxStart == 1            \* the fill is confirmed no later than this
MainnetBlockTime == 12   \* a source chain slower than the demo's anvil
NumSecrets == 2          \* secrets of the protocol runs
MaxSecret == 11          \* secrets of the hash check are 0..MaxSecret
MaxOrders == 3           \* orders built over repeated maker runs
MaxRerunTime == 25       \* the clock of the runs with a second taker execution
MaxHandoffTime == 10     \* the clock of the runs with repeated maker runs and a taker
MaxHandoffRuns == 2      \* maker runs before and during the taker's run
MaxArgs == 2             \* constructor argument lists have at most this length
MaxIterations == 10      \* iterations of one automine loop
MaxStarts == 2           \* runs of start_regtest.sh
NumOrderHashes == 3      \* order hashes of the swaps filled in one block
MaxAmount == 2           \* escrow amounts are 1..MaxAmount
MaxLogs == 2             \* SrcEscrowCreated logs in one block
MaxDelay == 9            \* rescue delays tried besides the script's are 0..MaxDelay

(* Program constants *)

AnvilBlockTime == 1      \* anvil --block-time 1
BitcoinBlockTime == 10   \* BLOCK_TIME default of start_regtest.sh
RewardEvery == 10        \* automine: BLOCK_COUNTER % 10
ScriptRescueDelay == 3600 \* DeployContracts.s.sol: uint32(60 * 60)
SleepSeconds == 10       \* setTimeout(resolve, 10000) of taker.ts

BlockTimes == {AnvilBlockTime, MainnetBlockTime}
Secrets == 1..NumSecrets
HashSecrets == 0..MaxSecret

---------------------------------------------------------------------------
(* Secret and HashLock *)

\* A digest cut to its low three bits.
hashSecretTruncated(s) == ((s * 7 + 3) % 256) % 8

\* HashLock.hashSecret: keccak256 of the secret.  The digest is modelled by a
\* fixed scrambling of the bounded secret space into a larger digest space.
hashSecret(s) == (s * 7 + 3) % 256

\* HashLock.forSingleFill(secret): the hash lock of a single-fill order.
forSingleFill(s) == hashSecret(s)

\* The check made by the hash-check script and by an escrow's withdraw:
\* the presented secret must hash to the lock.
verify(hashLock, s) == hashSecret(s) = hashLock

---------------------------------------------------------------------------
(* Time locks *)

\* The literal with the source public-withdrawal and cancellation offsets
\* exchanged.
TimeLocksSwapped ==
    [ srcWithdrawal         |-> 10,
      srcPublicWithdrawal   |-> 121,
      srcCancellation       |-> 120,
      srcPublicCancellation |-> 122,
      dstWithdrawal         |-> 10,
      dstPublicWithdrawal   |-> 100,
      dstCancellation       |-> 101 ]

\* The literal handed to TimeLocks.new by make_order.
TimeLocksNew ==
    [ srcWithdrawal         |-> 10,
      srcPublicWithdrawal   |-> 120,
      srcCancellation       |-> 121,
      srcPublicCancellation |-> 122,
      dstWithdrawal         |-> 10,
      dstPublicWithdrawal   |-> 100,
      dstCancellation       |-> 101 ]

\* The ordering invariant of the relative offsets, per side.
Ordered(t) ==
    /\ t.srcWithdrawal < t.srcPublicWithdrawal
    /\ t.srcPublicWithdrawal < t.srcCancellation
    /\ t.dstWithdrawal < t.dstPublicWithdrawal
    /\ t.dstPublicWithdrawal < t.dstCancellation

\* Offsets that break the ordering, as inputs of the validation check.
BadTimeLocks ==
    { [TimeLocksNew EXCEPT !.srcPublicWithdrawal = 5],
      [TimeLocksNew EXCEPT !.dstCancellation = 50] }

\* Chain time: the timestamp of the latest block.
SrcChainTime == (wall \div blockTime) * blockTime
DstChainTime == (wall \div BitcoinBlockTime) * BitcoinBlockTime

\* A block of the chain is being produced now: pending transactions confirm.
AtSrcBlock == wall % blockTime = 0
AtDstBlock == wall % BitcoinBlockTime = 0

---------------------------------------------------------------------------
(* Escrows: the on-chain collaborator *)

NoEscrow == [state |-> "none", deployedAt |-> 0, hashLock |-> 0, timeLocks |-> TimeLocksNew]

\* An escrow whose time locks are resolved against the order's start, one
\* value shared by both sides, and not against its creation time.
DeployShared(hashLock, timeLocks, now) ==
    [state |-> "Funded", deployedAt |-> 0, hashLock |-> hashLock, timeLocks |-> timeLocks]

\* Created -> Funded: the escrow is deployed with its own creation time.
Deploy(hashLock, timeLocks, now) ==
    [state |-> "Funded", deployedAt |-> now, hashLock |-> hashLock, timeLocks |-> timeLocks]

\* Absolute starts: creation time plus the relative offset.
SrcWithdrawalStart(e) == e.deployedAt + e.timeLocks.srcWithdrawal
SrcCancellationStart(e) == e.deployedAt + e.timeLocks.srcCancellation
DstWithdrawalStart(e) == e.deployedAt + e.timeLocks.dstWithdrawal
DstCancellationStart(e) == e.deployedAt + e.timeLocks.dstCancellation

\* A fill with every order accepted, consumed or not.
OrderAlwaysFillable(e) == TRUE

\* An order is consumed by its first fill: a fill of the single-fill order is
\* accepted only while no escrow was created for it.
OrderUnfilled(e) == e.state = "none"

\* Funded -> Withdrawn guard of an escrow.
CanWithdraw(e, start, now, s) ==
    /\ e.state = "Funded"
    /\ now >= start
    /\ verify(e.hashLock, s)

\* Funded -> Cancelled guard of an escrow.
CanCancel(e, start, now) ==
    /\ e.state = "Funded"
    /\ now >= start

---------------------------------------------------------------------------
(* Maker: maker.ts *)

\* make_order: the order with its hash lock and time locks.
make_order(secretIn, timeLocks) ==
    [ hashLock  |-> forSingleFill(secretIn),
      timeLocks |-> timeLocks ]

\* Resolver.deploySrc: the calldata of the fill.
deploySrc(o) ==
    [ fn |-> "deploySrc", hashLock |-> o.hashLock, timeLocks |-> o.timeLocks ]

\* An OrderData that records the hash lock in place of the secret.
MakeOrderDataHashed(o, secretIn) ==
    [ resolverTxnData |-> deploySrc(o),
      secret          |-> forSingleFill(secretIn) ]

\* The OrderData written to order.json.
MakeOrderData(o, secretIn) ==
    [ resolverTxnData |-> deploySrc(o),
      secret          |-> secretIn ]

\* ensureWethAndApproval: deposit and approve transactions of the maker.
MakerApprove ==
    /\ makerPc = "start"
    /\ makerPc' = "approved"
    /\ txLog' = txLog \cup {<<"maker", "approve">>}
    /\ UNCHANGED <<wall, blockTime, offsets, secret, order, orderFile, takerPc,
                   orderData, srcEscrowEvent, sleepLeft, srcEscrow, dstEscrow,
                   wdSubmit, hashVars, deployVars, toolVars, srcEscrowAddress, hashLockSecret, auxVars>>

\* main: read public_params.json, build and sign the order.  Every call of
\* make_order draws a new salt and nonce: the order is a new one.
MakerMakeOrder ==
    /\ makerPc = "approved"
    /\ makerPc' = "ordered"
    /\ hashLockSecret' = secret
    /\ order' = <<make_order(hashLockSecret', offsets)>>
    /\ orders' = Append(orders, [ nonce    |-> Len(orders) + 1,
                                  hashLock |-> make_order(hashLockSecret', offsets).hashLock ])
    /\ UNCHANGED <<wall, blockTime, offsets, secret, orderFile, takerPc,
                   orderData, srcEscrowEvent, sleepLeft, srcEscrow, dstEscrow,
                   txLog, wdSubmit, hashVars, deployVars, toolVars, srcEscrowAddress,
                   cancelBuilt, dstSecret, srcCreated, taker2, takerError>>

\* main: writeFileSync('order.json', ...).
MakerWrite ==
    /\ makerPc = "ordered"
    /\ makerPc' = "done"
    /\ orderFile' = <<MakeOrderData(order[1], hashLockSecret)>>
    /\ UNCHANGED <<wall, blockTime, offsets, secret, order, takerPc, orderData,
                   srcEscrowEvent, sleepLeft, srcEscrow, dstEscrow, txLog,
                   wdSubmit, hashVars, deployVars, toolVars, srcEscrowAddress, hashLockSecret, auxVars>>

\* main().catch: a step of the maker throws (an RPC error, a missing
\* public_params.json, a rejected argument); the error is logged.
MakerThrow ==
    /\ makerPc \in {"start", "approved", "ordered"}
    /\ makerPc' = "failed"
    /\ UNCHANGED <<wall, blockTime, offsets, secret, order, orderFile, takerPc,
                   orderData, srcEscrowEvent, sleepLeft, srcEscrow, dstEscrow,
                   txLog, wdSubmit, hashVars, deployVars, toolVars, srcEscrowAddress, hashLockSecret, auxVars>>

---------------------------------------------------------------------------
(* Taker: taker.ts *)

\* CONFIG.contracts of the maker and of the taker.
ZeroAddress == "0x0000000000000000000000000000000000000000"

CONFIG ==
    [ contracts |-> [ escrowFactory           |-> "0xE4166E7107f59917ae783d28c10c569fBac1bEA1",
                      resolverContract        |-> "0x1e34aaC4a7506Ff6F140158D6B9E62F845760435",
                      resolverBitcoinContract |-> ZeroAddress ] ]

\* new Resolver(srcAddress, dstAddress)
Resolver(srcAddress, dstAddress) ==
    [ srcAddress |-> srcAddress, dstAddress |-> dstAddress ]

\* const resolverContract = new Resolver(CONFIG.contracts.resolverContract,
\*                                       CONFIG.contracts.resolverBitcoinContract)
resolverContract ==
    Resolver(CONFIG.contracts.resolverContract, CONFIG.contracts.resolverBitcoinContract)

\* getSrcEscrowAddress(srcImmutables, implementation): the address is
\* derived from the hash of the immutables; it is kept as the immutables it
\* was derived from.
getSrcEscrowAddress(immutables) == [ of |-> immutables ]

\* A withdraw that passes immutables rebuilt without the deployment time.
withdrawRebuilt(self, side, escrow, s, immutables) ==
    [ to         |-> IF side = "src" THEN self.srcAddress ELSE self.dstAddress,
      fn         |-> "withdraw",
      escrow     |-> escrow,
      secret     |-> s,
      immutables |-> [immutables EXCEPT !.deployedAt = 0] ]

\* Resolver.withdraw(side, escrow, secret, immutables)
withdraw(self, side, escrow, s, immutables) ==
    [ to         |-> IF side = "src" THEN self.srcAddress ELSE self.dstAddress,
      fn         |-> "withdraw",
      escrow     |-> escrow,
      secret     |-> s,
      immutables |-> immutables ]

\* Resolver.cancel(side, escrow, immutables)
cancel(self, side, escrow, immutables) ==
    [ to         |-> IF side = "src" THEN self.srcAddress ELSE self.dstAddress,
      fn         |-> "cancel",
      escrow     |-> escrow,
      immutables |-> immutables ]

\* EscrowFactory.getSrcDeployEvent: the immutables of the SrcEscrowCreated log.
getSrcDeployEvent(e) ==
    [ hashLock |-> e.hashLock, deployedAt |-> e.deployedAt, timeLocks |-> e.timeLocks ]

\* main: read order.json; a missing file makes readFile throw.
TakerReadOrder ==
    /\ takerPc = "start"
    /\ IF Len(orderFile) = 0
         THEN /\ takerPc' = "failed"
              /\ UNCHANGED orderData
         ELSE /\ takerPc' = "read"
              /\ orderData' = orderFile
    /\ UNCHANGED <<wall, blockTime, offsets, secret, makerPc, order, orderFile,
                   srcEscrowEvent, sleepLeft, srcEscrow, dstEscrow, txLog,
                   wdSubmit, hashVars, deployVars, toolVars, srcEscrowAddress, hashLockSecret, auxVars>>

\* main: send the fill (resolverTxnData) and wait for its receipt.  The fill
\* creates the source escrow unless the order was already consumed.
TakerFill ==
    /\ takerPc = "read"
    /\ AtSrcBlock
    /\ wall <= MaxStart
    /\ txLog' = txLog \cup {<<"taker", "fill">>}
    /\ IF OrderUnfilled(srcEscrow)
         THEN /\ srcEscrow' = Deploy(orderData[1].resolverTxnData.hashLock,
                                     orderData[1].resolverTxnData.timeLocks,
                                     SrcChainTime)
              /\ srcCreated' = srcCreated + 1
              /\ takerPc' = "filled"
         ELSE /\ takerPc' = "failed"
              /\ UNCHANGED <<srcEscrow, srcCreated>>
    /\ UNCHANGED <<wall, blockTime, offsets, secret, makerPc, order, orderFile,
                   orderData, srcEscrowEvent, sleepLeft, dstEscrow, wdSubmit,
                   hashVars, deployVars, toolVars, srcEscrowAddress, hashLockSecret, cancelBuilt, dstSecret, orders, taker2, takerError>>

\* main: decode the SrcEscrowCreated event, derive the escrow address and
\* start the fixed sleep.
TakerGetEvent ==
    /\ takerPc = "filled"
    /\ takerPc' = "sleep"
    /\ srcEscrowEvent' = <<getSrcDeployEvent(srcEscrow)>>
    /\ srcEscrowAddress' = <<getSrcEscrowAddress(srcEscrowEvent'[1])>>
    /\ sleepLeft' = SleepSeconds
    /\ UNCHANGED <<wall, blockTime, offsets, secret, makerPc, order, orderFile,
                   orderData, srcEscrow, dstEscrow, txLog, wdSubmit, hashVars,
                   deployVars, toolVars, hashLockSecret, auxVars>>

\* main: after the sleep, build the source withdrawal with the secret of
\* order.json and submit it.
TakerWithdrawSubmit ==
    /\ takerPc = "sleep"
    /\ sleepLeft = 0
    /\ takerPc' = "withdrawSent"
    /\ LET txn == withdraw(resolverContract, "src", srcEscrowAddress[1],
                            orderData[1].secret, srcEscrowEvent[1])
       IN /\ txLog' = txLog \cup {<<"taker", txn.fn>>}
          /\ wdSubmit' = <<[ windowOpen |-> SrcChainTime >= SrcWithdrawalStart(srcEscrow),
                             srcState   |-> srcEscrow.state,
                             dstState   |-> dstEscrow.state,
                             to         |-> txn.to,
                             escrow     |-> txn.escrow,
                             secret     |-> txn.secret,
                             immutables |-> txn.immutables ]>>
    /\ UNCHANGED <<wall, blockTime, offsets, secret, makerPc, order, orderFile,
                   orderData, srcEscrowEvent, sleepLeft, srcEscrow, dstEscrow,
                   hashVars, deployVars, toolVars, srcEscrowAddress, hashLockSecret, auxVars>>

\* Wallet.send: the withdrawal is mined; the escrow executes it or reverts,
\* and a revert makes send throw.
TakerWithdrawConfirm ==
    /\ takerPc = "withdrawSent"
    /\ AtSrcBlock
    /\ IF CanWithdraw(srcEscrow, SrcWithdrawalStart(srcEscrow), SrcChainTime,
                      orderData[1].secret)
         THEN /\ srcEscrow' = [srcEscrow EXCEPT !.state = "Withdrawn"]
              /\ takerPc' = "done"
         ELSE /\ takerPc' = "failed"
              /\ UNCHANGED srcEscrow
    /\ UNCHANGED <<wall, blockTime, offsets, secret, makerPc, order, orderFile,
                   orderData, srcEscrowEvent, sleepLeft, dstEscrow, txLog,
                   wdSubmit, hashVars, deployVars, toolVars, srcEscrowAddress, hashLockSecret, auxVars>>

\* The errors a step of the taker throws: the node cannot be reached, or
\* anything else (a reverted fill, an unreadable event).
TakerErrors == {"ChainUnavailable", "other"}

\* main().catch: a step of the taker throws; whatever the error is, it is
\* logged and the process ends.
TakerThrow ==
    /\ takerPc \in {"start", "read", "filled", "sleep", "withdrawSent"}
    /\ takerPc' = "failed"
    /\ \E e \in TakerErrors : takerError' = e
    /\ UNCHANGED <<wall, blockTime, offsets, secret, makerPc, order, orderFile,
                   orderData, srcEscrowEvent, sleepLeft, srcEscrow, dstEscrow,
                   txLog, wdSubmit, hashVars, deployVars, toolVars, srcEscrowAddress, hashLockSecret, cancelBuilt, dstSecret, orders,
                   srcCreated, taker2>>

---------------------------------------------------------------------------
(* Operator scripts and the other parties on the chains *)

\* deploy_bitcoin_contract.sh: the resolver's admin wallet funds the
\* destination HTLC for the maker.
DeployBitcoinContract ==
    /\ dstEscrow.state = "none"
    /\ AtDstBlock
    /\ dstEscrow' = Deploy(forSingleFill(secret), offsets, DstChainTime)
    /\ UNCHANGED <<wall, blockTime, offsets, secret, makerPc, order, orderFile,
                   takerPc, orderData, srcEscrowEvent, sleepLeft, srcEscrow,
                   txLog, wdSubmit, hashVars, deployVars, toolVars, srcEscrowAddress, hashLockSecret, auxVars>>

\* withdraw_maker.sh <SWAP_SECRET>: the maker claims the destination HTLC.
WithdrawMaker(s) ==
    /\ AtDstBlock
    /\ CanWithdraw(dstEscrow, DstWithdrawalStart(dstEscrow), DstChainTime, s)
    /\ dstEscrow' = [dstEscrow EXCEPT !.state = "Withdrawn"]
    /\ dstSecret' = <<s>>
    /\ UNCHANGED <<wall, blockTime, offsets, secret, makerPc, order, orderFile,
                   takerPc, orderData, srcEscrowEvent, sleepLeft, srcEscrow,
                   txLog, wdSubmit, hashVars, deployVars, toolVars, srcEscrowAddress, hashLockSecret, cancelBuilt, orders, srcCreated, taker2,
                   takerError>>

\* A cancel transaction for the source side, as Resolver.cancel builds it,
\* is mined once the escrow's cancellation window is open.  No step of the
\* maker or the taker sends it: it comes from outside the two processes.
SrcCancel ==
    /\ AtSrcBlock
    /\ CanCancel(srcEscrow, SrcCancellationStart(srcEscrow), SrcChainTime)
    /\ srcEscrow' = [srcEscrow EXCEPT !.state = "Cancelled"]
    /\ txLog' = txLog \cup {<<"other", cancel(resolverContract, "src",
                                                 getSrcEscrowAddress(getSrcDeployEvent(srcEscrow)),
                                                 getSrcDeployEvent(srcEscrow)).fn>>}
    /\ UNCHANGED <<wall, blockTime, offsets, secret, makerPc, order, orderFile,
                   takerPc, orderData, srcEscrowEvent, sleepLeft, dstEscrow,
                   wdSubmit, hashVars, deployVars, toolVars, srcEscrowAddress, hashLockSecret, auxVars>>

\* The destination HTLC is refunded to the sender after its timeout.
DstCancel ==
    /\ AtDstBlock
    /\ CanCancel(dstEscrow, DstCancellationStart(dstEscrow), DstChainTime)
    /\ dstEscrow' = [dstEscrow EXCEPT !.state = "Cancelled"]
    /\ UNCHANGED <<wall, blockTime, offsets, secret, makerPc, order, orderFile,
                   takerPc, orderData, srcEscrowEvent, sleepLeft, srcEscrow,
                   txLog, wdSubmit, hashVars, deployVars, toolVars, srcEscrowAddress, hashLockSecret, auxVars>>

\* One second passes; a running timer counts down.
Tick ==
    /\ wall < MaxTime
    /\ wall' = wall + 1
    /\ sleepLeft' = IF sleepLeft > 0 THEN sleepLeft - 1 ELSE 0
    /\ taker2' = [taker2 EXCEPT !.sleepLeft = IF @ > 0 THEN @ - 1 ELSE 0]
    /\ UNCHANGED <<blockTime, offsets, secret, makerPc, order, orderFile,
                   takerPc, orderData, srcEscrowEvent, srcEscrow, dstEscrow,
                   txLog, wdSubmit, hashVars, deployVars, toolVars, srcEscrowAddress, hashLockSecret, cancelBuilt, dstSecret, orders,
                   srcCreated, takerError>>

---------------------------------------------------------------------------
(* Specification of the protocol runs *)

\* No instance of the class has been constructed.
NoInstance == [state |-> "none", signer |-> FALSE]

\* The second execution before run_taker.sh is started again.
NotStarted ==
    [pc |-> "idle", orderData |-> <<>>, srcEscrowEvent |-> <<>>, sleepLeft |-> 0,
     error |-> "none"]

\* The evm utilities are not in use.
DeployAtRest ==
    /\ privateKey = "undefined"
    /\ contractName = "Resolver"
    /\ constructorArgs = <<>>
    /\ artifacts = {}
    /\ meshSwap = NoInstance
    /\ deployer = NoInstance
    /\ deployOut = <<>>

\* No run of the maker or of the taker has left a trace.
RunAtRest ==
    /\ cancelBuilt = <<>>
    /\ dstSecret = <<>>
    /\ orders = <<>>
    /\ srcCreated = 0
    /\ taker2 = NotStarted
    /\ takerError = "none"

\* No SrcEscrowCreated log is being decoded.
EventAtRest ==
    /\ blockLogs = <<>>
    /\ ownOrder = 0
    /\ eventTaker = [pc |-> "idle", event |-> <<>>]

\* No regtest node has been started.
RegtestAtRest ==
    /\ daemons = 0
    /\ loops = <<>>
    /\ startCalls = 0
    /\ setupRuns = 0

\* No EscrowFactory is being constructed.
FactoryAtRest ==
    /\ rescueArgs = <<0, 0>>
    /\ factory = <<>>

\* No transaction request is being built outside a run.
RouteAtRest ==
    /\ routeIn = <<>>
    /\ routeOut = <<>>

\* The utilities around the swap are not in use.
ToolsAtRest ==
    /\ verifyOut = <<>>
    /\ EventAtRest
    /\ RegtestAtRest
    /\ FactoryAtRest
    /\ RouteAtRest

\* Nothing has run yet.
AuxInit == RunAtRest /\ DeployAtRest /\ ToolsAtRest

InitWith(timeLockInputs) ==
    /\ wall = 0
    /\ blockTime \in BlockTimes
    /\ offsets \in timeLockInputs
    /\ secret \in Secrets
    /\ makerPc = "start"
    /\ hashLockSecret = 0
    /\ order = <<>>
    /\ orderFile = <<>>
    /\ takerPc = "start"
    /\ orderData = <<>>
    /\ srcEscrowEvent = <<>>
    /\ srcEscrowAddress = <<>>
    /\ sleepLeft = 0
    /\ srcEscrow = NoEscrow
    /\ dstEscrow = NoEscrow
    /\ txLog = {}
    /\ wdSubmit = <<>>
    /\ hashIn = <<0, 0>>
    /\ hashOut = <<>>
    /\ AuxInit

Init == InitWith({TimeLocksNew})

Next ==
    \/ MakerApprove
    \/ MakerMakeOrder
    \/ MakerWrite
    \/ MakerThrow
    \/ TakerReadOrder
    \/ TakerFill
    \/ TakerGetEvent
    \/ TakerWithdrawSubmit
    \/ TakerWithdrawConfirm
    \/ TakerThrow
    \/ DeployBitcoinContract
    \/ \E s \in Secrets : WithdrawMaker(s)
    \/ SrcCancel
    \/ DstCancel
    \/ Tick

Spec == Init /\ [][Next]_vars

---------------------------------------------------------------------------
(* The maker run on arbitrary time-lock inputs *)

ValidationInit == InitWith({TimeLocksNew} \cup BadTimeLocks)

ValidationSpec == ValidationInit /\ [][Next]_vars

---------------------------------------------------------------------------
(* The protocol under fair progress of the chains and of the processes *)

MakerStep == MakerApprove \/ MakerMakeOrder \/ MakerWrite

TakerStep ==
    \/ TakerReadOrder
    \/ TakerFill
    \/ TakerGetEvent
    \/ TakerWithdrawSubmit
    \/ TakerWithdrawConfirm

FairSpec ==
    /\ Init
    /\ [][Next]_vars
    /\ WF_vars(Tick)
    /\ WF_vars(MakerStep)
    /\ WF_vars(TakerStep)

---------------------------------------------------------------------------
(* Repeated maker runs: run_maker.sh started again *)

\* run_maker.sh: a new maker process starts after the previous one ended.
\* order.json stays as the previous run left it until it is overwritten.
MakerRestart ==
    /\ makerPc \in {"done", "failed"}
    /\ Len(orders) < MaxOrders
    /\ makerPc' = "start"
    /\ hashLockSecret' = 0
    /\ order' = <<>>
    /\ UNCHANGED <<wall, blockTime, offsets, secret, orderFile, takerPc,
                   orderData, srcEscrowEvent, sleepLeft, srcEscrow, dstEscrow,
                   txLog, wdSubmit, hashVars, deployVars, toolVars, srcEscrowAddress, auxVars>>

\* generate_proof.sh: the prover rewrites public_params.json; the maker reads
\* whatever secret_hash the file holds when it runs.
GenerateProof ==
    /\ \E s \in Secrets : secret' = s
    /\ UNCHANGED <<wall, blockTime, offsets, makerPc, order, orderFile, takerPc,
                   orderData, srcEscrowEvent, sleepLeft, srcEscrow, dstEscrow,
                   txLog, wdSubmit, hashVars, deployVars, toolVars, srcEscrowAddress, hashLockSecret, auxVars>>

MakerRunsNext ==
    \/ MakerApprove
    \/ MakerMakeOrder
    \/ MakerWrite
    \/ MakerThrow
    \/ MakerRestart
    \/ GenerateProof

MakerRunsSpec == Init /\ [][MakerRunsNext]_vars

---------------------------------------------------------------------------
(* The hand-off through order.json: run_maker.sh, run any number of times,
   and one run of run_taker.sh at any moment *)

HandoffNext ==
    \/ MakerApprove
    \/ MakerMakeOrder
    \/ MakerWrite
    \/ MakerThrow
    \/ Len(orders) < MaxHandoffRuns /\ MakerRestart
    \/ GenerateProof
    \/ TakerReadOrder
    \/ TakerFill
    \/ TakerGetEvent
    \/ TakerWithdrawSubmit
    \/ TakerWithdrawConfirm
    \/ TakerThrow
    \/ wall < MaxHandoffTime /\ Tick

HandoffSpec == Init /\ [][HandoffNext]_vars

---------------------------------------------------------------------------
(* A second execution of taker.ts on the same order.json: run_taker.sh
   started again, after or while the first execution runs.  The code holds
   no lock and records no progress outside the process, so the second
   execution starts from the top of main().  Its fill is followed from its
   submission to its receipt. *)

\* What no step of the second execution changes.
rerunFrame == <<wall, blockTime, offsets, secret, makerPc, order, orderFile,
                takerPc, orderData, srcEscrowEvent, sleepLeft, dstEscrow,
                wdSubmit, hashVars, deployVars, toolVars, srcEscrowAddress, hashLockSecret, cancelBuilt, dstSecret, orders, takerError>>

\* run_taker.sh: npx tsx src/taker.ts
Taker2Start ==
    /\ taker2.pc = "idle"
    /\ taker2' = [taker2 EXCEPT !.pc = "start"]
    /\ UNCHANGED <<rerunFrame, srcEscrow, srcCreated, txLog>>

\* main: read order.json; a missing file makes readFile throw.
Taker2ReadOrder ==
    /\ taker2.pc = "start"
    /\ IF Len(orderFile) = 0
         THEN taker2' = [taker2 EXCEPT !.pc = "failed", !.error = "other"]
         ELSE taker2' = [taker2 EXCEPT !.pc = "read", !.orderData = orderFile]
    /\ UNCHANGED <<rerunFrame, srcEscrow, srcCreated, txLog>>

\* main: send_new submits the fill recorded in order.json.
Taker2FillSubmit ==
    /\ taker2.pc = "read"
    /\ taker2' = [taker2 EXCEPT !.pc = "fillSent"]
    /\ txLog' = txLog \cup {<<"taker2", "fill">>}
    /\ UNCHANGED <<rerunFrame, srcEscrow, srcCreated>>

\* main: send_new returns the receipt of the fill.  The fill creates the
\* source escrow unless the order was already consumed; a reverted fill
\* makes send_new throw.
Taker2FillConfirm ==
    /\ taker2.pc = "fillSent"
    /\ AtSrcBlock
    /\ IF OrderUnfilled(srcEscrow)
         THEN /\ srcEscrow' = Deploy(taker2.orderData[1].resolverTxnData.hashLock,
                                     taker2.orderData[1].resolverTxnData.timeLocks,
                                     SrcChainTime)
              /\ srcCreated' = srcCreated + 1
              /\ taker2' = [taker2 EXCEPT !.pc = "filled"]
         ELSE /\ taker2' = [taker2 EXCEPT !.pc = "failed", !.error = "reverted"]
              /\ UNCHANGED <<srcEscrow, srcCreated>>
    /\ UNCHANGED <<rerunFrame, txLog>>

\* main: decode the SrcEscrowCreated event and start the fixed sleep.
Taker2GetEvent ==
    /\ taker2.pc = "filled"
    /\ taker2' = [taker2 EXCEPT !.pc = "sleep",
                                !.srcEscrowEvent = <<getSrcDeployEvent(srcEscrow)>>,
                                !.sleepLeft = SleepSeconds]
    /\ UNCHANGED <<rerunFrame, srcEscrow, srcCreated, txLog>>

\* main: after the sleep, build and submit the source withdrawal.
Taker2WithdrawSubmit ==
    /\ taker2.pc = "sleep"
    /\ taker2.sleepLeft = 0
    /\ taker2' = [taker2 EXCEPT !.pc = "withdrawSent"]
    /\ txLog' = txLog \cup
                 {<<"taker2", withdraw(resolverContract, "src",
                                       getSrcEscrowAddress(taker2.srcEscrowEvent[1]),
                                       taker2.orderData[1].secret,
                                       taker2.srcEscrowEvent[1]).fn>>}
    /\ UNCHANGED <<rerunFrame, srcEscrow, srcCreated>>

\* Wallet.send: the withdrawal is mined; a revert makes send throw.
Taker2WithdrawConfirm ==
    /\ taker2.pc = "withdrawSent"
    /\ AtSrcBlock
    /\ IF CanWithdraw(srcEscrow, SrcWithdrawalStart(srcEscrow), SrcChainTime,
                      taker2.orderData[1].secret)
         THEN /\ srcEscrow' = [srcEscrow EXCEPT !.state = "Withdrawn"]
              /\ taker2' = [taker2 EXCEPT !.pc = "done"]
         ELSE /\ taker2' = [taker2 EXCEPT !.pc = "failed", !.error = "reverted"]
              /\ UNCHANGED srcEscrow
    /\ UNCHANGED <<rerunFrame, srcCreated, txLog>>

\* main().catch: a step of the second execution throws for another reason.
Taker2Throw ==
    /\ taker2.pc \in {"start", "read", "fillSent", "filled", "sleep", "withdrawSent"}
    /\ taker2' = [taker2 EXCEPT !.pc = "failed", !.error = "other"]
    /\ UNCHANGED <<rerunFrame, srcEscrow, srcCreated, txLog>>

\* One second passes, within the horizon of these runs.
RerunTick == wall < MaxRerunTime /\ Tick

RerunNext ==
    \/ MakerApprove
    \/ MakerMakeOrder
    \/ MakerWrite
    \/ MakerThrow
    \/ TakerReadOrder
    \/ TakerFill
    \/ TakerGetEvent
    \/ TakerWithdrawSubmit
    \/ TakerWithdrawConfirm
    \/ TakerThrow
    \/ Taker2Start
    \/ Taker2ReadOrder
    \/ Taker2FillSubmit
    \/ Taker2FillConfirm
    \/ Taker2GetEvent
    \/ Taker2WithdrawSubmit
    \/ Taker2WithdrawConfirm
    \/ Taker2Throw
    \/ RerunTick

RerunSpec == Init /\ [][RerunNext]_vars

---------------------------------------------------------------------------
(* Resolver.cancel applied by a holder of the event's immutables *)

\* Resolver.cancel('src', escrow, immutables): the transaction request is
\* built from its arguments alone and handed to the wallet.  Neither the
\* chain's time nor the escrow's state is an input of the method.
ResolverCancel ==
    /\ Len(srcEscrowEvent) > 0
    /\ Len(cancelBuilt) = 0
    /\ txLog' = txLog \cup {<<"resolver", cancel(resolverContract, "src", srcEscrowAddress[1],
                                                    srcEscrowEvent[1]).fn>>}
    /\ cancelBuilt' = <<[ windowOpen |-> SrcChainTime >= SrcCancellationStart(srcEscrow),
                          srcState   |-> srcEscrow.state ]>>
    /\ UNCHANGED <<wall, blockTime, offsets, secret, makerPc, order, orderFile,
                   takerPc, orderData, srcEscrowEvent, sleepLeft, srcEscrow,
                   dstEscrow, wdSubmit, hashVars, deployVars, toolVars, srcEscrowAddress, hashLockSecret, dstSecret, orders, srcCreated,
                   taker2, takerError>>

CancelNext == Next \/ ResolverCancel

CancelSpec == Init /\ [][CancelNext]_vars

---------------------------------------------------------------------------
(* evm utilities: MeshSwap (evm/src/index.ts) and ContractDeployer
   (evm/scripts/deploy.ts) *)

\* The privateKey argument: left out, the empty string, a well-formed key,
\* or a string that is no key.
Keys == {"undefined", "empty", "valid", "invalid"}

ContractNames == {"EscrowFactory", "Resolver", "NonExistentContract"}

ArgLists == UNION { [1..n -> {0, 1}] : n \in 0..MaxArgs }

\* JavaScript truthiness of the privateKey argument: if (privateKey).
Truthy(key) == key \in {"valid", "invalid"}

\* new ethers.Wallet(privateKey, provider) throws on a string that is no key.
WalletThrows(key) == key # "valid"

\* deployContract without its signer check.
deployContractNoGuard(hasSigner) == "Contract deployment implementation needed"

\* MeshSwap.deployContract: the error it throws.
deployContractError(hasSigner) ==
    IF ~hasSigner
      THEN "Signer required for contract deployment"
      ELSE "Contract deployment implementation needed"

\* loadArtifact without its existsSync check: readFileSync throws instead.
loadArtifactNoCheck(name, files) ==
    IF name \in files
      THEN [error |-> "none", artifact |-> <<name>>]
      ELSE [error |-> "ENOENT: no such file or directory", artifact |-> <<>>]

\* ContractDeployer.loadArtifact: the parsed artifact, or the error thrown.
loadArtifact(name, files) ==
    IF name \notin files
      THEN [error |-> "Contract artifact not found", artifact |-> <<>>]
      ELSE [error |-> "none", artifact |-> <<name>>]

\* new MeshSwap(providerUrl, privateKey?)
MeshSwapNew ==
    /\ meshSwap.state = "none"
    /\ meshSwap' = IF Truthy(privateKey)
                     THEN IF WalletThrows(privateKey)
                            THEN [state |-> "threw", signer |-> FALSE]
                            ELSE [state |-> "built", signer |-> TRUE]
                     ELSE [state |-> "built", signer |-> FALSE]
    /\ UNCHANGED <<protoVars, hashVars, auxVars, toolVars, privateKey, contractName,
                   constructorArgs, artifacts, deployer, deployOut>>

\* MeshSwap.deployContract(contractName, constructorArgs)
MeshSwapDeployContract ==
    /\ meshSwap.state = "built"
    /\ Len(deployOut) = 0
    /\ deployOut' = <<[ by           |-> "MeshSwap",
                        error        |-> deployContractError(meshSwap.signer),
                        factoryBuilt |-> FALSE,
                        txs          |-> 0 ]>>
    /\ UNCHANGED <<protoVars, hashVars, auxVars, toolVars, privateKey, contractName,
                   constructorArgs, artifacts, meshSwap, deployer>>

\* new ContractDeployer(providerUrl, privateKey)
ContractDeployerNew ==
    /\ deployer.state = "none"
    /\ deployer' = IF WalletThrows(privateKey)
                     THEN [state |-> "threw", signer |-> FALSE]
                     ELSE [state |-> "built", signer |-> TRUE]
    /\ UNCHANGED <<protoVars, hashVars, auxVars, toolVars, privateKey, contractName,
                   constructorArgs, artifacts, meshSwap, deployOut>>

\* ContractDeployer.deployContract(contractName, constructorArgs): load the
\* artifact, build the factory, send the deployment and wait for it.  The
\* deployment itself succeeds or is refused by the node.
ContractDeployerDeployContract ==
    /\ deployer.state = "built"
    /\ Len(deployOut) = 0
    /\ IF loadArtifact(contractName, artifacts).error # "none"
         THEN deployOut' = <<[ by           |-> "ContractDeployer",
                              error        |-> loadArtifact(contractName, artifacts).error,
                              factoryBuilt |-> FALSE,
                              txs          |-> 0 ]>>
         ELSE \E refused \in BOOLEAN :
                deployOut' = <<[ by           |-> "ContractDeployer",
                                error        |-> IF refused THEN "deployment failed"
                                                            ELSE "none",
                                factoryBuilt |-> TRUE,
                                txs          |-> 1 ]>>
    /\ UNCHANGED <<protoVars, hashVars, auxVars, toolVars, privateKey, contractName,
                   constructorArgs, artifacts, meshSwap, deployer>>

\* How the call contract[functionName]() can end: the promise resolves, the
\* promise rejects, or the contract has no such function and the call
\* expression itself throws.
VerifyCalls == {"resolves", "rejects", "missing"}

\* verifyDeployment without its catch block.
verifyDeploymentNoCatch(call) ==
    [ call     |-> call,
      calls    |-> IF call = "missing" THEN 0 ELSE 1,
      rejected |-> call # "resolves",
      value    |-> "undefined",
      console  |-> IF call = "resolves" THEN "log" ELSE "none" ]

\* ContractDeployer.verifyDeployment(contract, functionName): one call inside
\* try, its outcome written to the console, nothing returned.
verifyDeployment(call) ==
    [ call     |-> call,
      calls    |-> IF call = "missing" THEN 0 ELSE 1,
      rejected |-> FALSE,
      value    |-> "undefined",
      console  |-> IF call = "resolves" THEN "log" ELSE "error" ]

\* await deployer.verifyDeployment(contract, functionName)
ContractDeployerVerifyDeployment ==
    /\ deployer.state = "built"
    /\ Len(verifyOut) = 0
    /\ \E call \in VerifyCalls : verifyOut' = <<verifyDeployment(call)>>
    /\ UNCHANGED <<coreVars, eventVars, regtestVars, factoryVars, routeVars>>

DeployInit ==
    /\ wall = 0
    /\ blockTime = AnvilBlockTime
    /\ offsets = TimeLocksNew
    /\ secret = 1
    /\ makerPc = "start"
    /\ hashLockSecret = 0
    /\ order = <<>>
    /\ orderFile = <<>>
    /\ takerPc = "start"
    /\ orderData = <<>>
    /\ srcEscrowEvent = <<>>
    /\ srcEscrowAddress = <<>>
    /\ sleepLeft = 0
    /\ srcEscrow = NoEscrow
    /\ dstEscrow = NoEscrow
    /\ txLog = {}
    /\ wdSubmit = <<>>
    /\ hashIn = <<0, 0>>
    /\ hashOut = <<>>
    /\ RunAtRest
    /\ privateKey \in Keys
    /\ contractName \in ContractNames
    /\ constructorArgs \in ArgLists
    /\ artifacts \in SUBSET ContractNames
    /\ meshSwap = NoInstance
    /\ deployer = NoInstance
    /\ deployOut = <<>>
    /\ ToolsAtRest

DeployNext ==
    \/ MeshSwapNew
    \/ MeshSwapDeployContract
    \/ ContractDeployerNew
    \/ ContractDeployerDeployContract
    \/ ContractDeployerVerifyDeployment

DeploySpec == DeployInit /\ [][DeployNext]_vars

---------------------------------------------------------------------------
(* The fill's block: EscrowFactory.getSrcDeployEvent of 1inch/src *)

\* The takers (resolver contracts) that fill orders.
Takers == {"resolver", "otherResolver"}

\* The terms of an order as its SrcEscrowCreated log carries them.
Terms == [orderHash : 1..NumOrderHashes, amount : 1..MaxAmount, taker : Takers]

\* The logs one block can hold: one log per filled order, in the order of
\* the fills.
RECURSIVE BlocksOfLen(_)
BlocksOfLen(n) ==
    IF n = 0
      THEN {<<>>}
      ELSE {Append(b, l) : b \in BlocksOfLen(n - 1), l \in Terms}

DistinctOrders(b) ==
    \A i, j \in 1..Len(b) : i # j => b[i].orderHash # b[j].orderHash

Blocks == {b \in UNION {BlocksOfLen(n) : n \in 0..MaxLogs} : DistinctOrders(b)}

\* getSrcDeployEvent(blockHash): all SrcEscrowCreated logs of the factory in
\* the block are fetched and the first one is decoded.
getSrcDeployEventOfBlock(logs) == logs[1]

\* await escrowFactory.getSrcDeployEvent(srcDeployBlock): with no log in the
\* block, data is undefined and data.at(0) throws.
EventGet ==
    /\ eventTaker.pc = "filled"
    /\ eventTaker' = IF Len(blockLogs) = 0
                       THEN [pc |-> "failed", event |-> <<>>]
                       ELSE [pc |-> "sleep", event |-> <<getSrcDeployEventOfBlock(blockLogs)>>]
    /\ UNCHANGED <<blockLogs, ownOrder>>
    /\ UNCHANGED <<coreVars, verifyOut, regtestVars, factoryVars, routeVars>>

\* main: after the sleep the withdrawal is built from the decoded event and
\* sent; the event is not compared with the order read from order.json.
EventWithdraw ==
    /\ eventTaker.pc = "sleep"
    /\ eventTaker' = [eventTaker EXCEPT !.pc = "withdrawSent"]
    /\ UNCHANGED <<blockLogs, ownOrder>>
    /\ UNCHANGED <<coreVars, verifyOut, regtestVars, factoryVars, routeVars>>

\* The taker's fill is confirmed: the block holds the log of its escrow,
\* equal to the terms of its order, among the logs of the other fills of the
\* block; or the node returns no log for the block.
EventInit ==
    /\ wall = 0
    /\ blockTime = AnvilBlockTime
    /\ offsets = TimeLocksNew
    /\ secret = 1
    /\ makerPc = "start"
    /\ hashLockSecret = 0
    /\ order = <<>>
    /\ orderFile = <<>>
    /\ takerPc = "start"
    /\ orderData = <<>>
    /\ srcEscrowEvent = <<>>
    /\ srcEscrowAddress = <<>>
    /\ sleepLeft = 0
    /\ srcEscrow = NoEscrow
    /\ dstEscrow = NoEscrow
    /\ txLog = {}
    /\ wdSubmit = <<>>
    /\ hashIn = <<0, 0>>
    /\ hashOut = <<>>
    /\ RunAtRest
    /\ DeployAtRest
    /\ verifyOut = <<>>
    /\ RegtestAtRest
    /\ FactoryAtRest
    /\ RouteAtRest
    /\ ownOrder \in Terms
    /\ blockLogs \in Blocks
    /\ Len(blockLogs) > 0 => \E i \in 1..Len(blockLogs) : blockLogs[i] = ownOrder
    /\ eventTaker = [pc |-> "filled", event |-> <<>>]

EventNext == EventGet \/ EventWithdraw

EventSpec == EventInit /\ [][EventNext]_vars

---------------------------------------------------------------------------
(* The escrow factory: ethereum/src/EscrowFactory.sol *)

\* uint32(x): x modulo 2^32, computed on the two 16-bit halves.
Uint32(x) == (x % 65536) + 65536 * ((x \div 65536) % 65536)

\* The constructor of the inherited factory: the source escrow
\* implementation gets the first delay, the destination one the second.
BaseEscrowFactory(rescueDelaySrc, rescueDelayDst) ==
    [ srcRescueDelay |-> rescueDelaySrc, dstRescueDelay |-> rescueDelayDst ]

\* constructor(limitOrderProtocol, feeToken, accessToken, owner,
\*             rescueDelaySrc, rescueDelayDst)
\*   BaseEscrowFactory(..., owner, rescueDelayDst, rescueDelayDst)
EscrowFactory(rescueDelaySrc, rescueDelayDst) ==
    BaseEscrowFactory(rescueDelayDst, rescueDelayDst)

\* new EscrowFactory(limitOrderProtocol, feeToken, accessToken, owner,
\*                   rescueDelaySrc, rescueDelayDst)
FactoryConstruct ==
    /\ Len(factory) = 0
    /\ factory' = <<EscrowFactory(Uint32(rescueArgs[1]), Uint32(rescueArgs[2]))>>
    /\ UNCHANGED rescueArgs
    /\ UNCHANGED <<coreVars, verifyOut, eventVars, regtestVars, routeVars>>

\* The two delays: those of DeployContracts.s.sol, or any small pair.
FactoryInit ==
    /\ wall = 0
    /\ blockTime = AnvilBlockTime
    /\ offsets = TimeLocksNew
    /\ secret = 1
    /\ makerPc = "start"
    /\ hashLockSecret = 0
    /\ order = <<>>
    /\ orderFile = <<>>
    /\ takerPc = "start"
    /\ orderData = <<>>
    /\ srcEscrowEvent = <<>>
    /\ srcEscrowAddress = <<>>
    /\ sleepLeft = 0
    /\ srcEscrow = NoEscrow
    /\ dstEscrow = NoEscrow
    /\ txLog = {}
    /\ wdSubmit = <<>>
    /\ hashIn = <<0, 0>>
    /\ hashOut = <<>>
    /\ RunAtRest
    /\ DeployAtRest
    /\ verifyOut = <<>>
    /\ EventAtRest
    /\ RegtestAtRest
    /\ RouteAtRest
    /\ rescueArgs \in ((0..MaxDelay) \X (0..MaxDelay))
                        \cup {<<ScriptRescueDelay, ScriptRescueDelay>>}
    /\ factory = <<>>

FactoryNext == FactoryConstruct

FactorySpec == FactoryInit /\ [][FactoryNext]_vars

---------------------------------------------------------------------------
(* Resolver.withdraw and Resolver.cancel of the configured Resolver *)

Sides == {"src", "dst"}

ResolverOps == {"withdraw", "cancel"}

\* The arguments of one call: the side, the method, the secret and the
\* immutables of an escrow deployed at some time.
RouteInputs ==
    [ side       : Sides,
      op         : ResolverOps,
      secret     : HashSecrets,
      immutables : { getSrcDeployEvent(Deploy(forSingleFill(1), TimeLocksNew, t)) :
                       t \in 0..MaxStart } ]

\* resolverContract.withdraw(side, escrow, secret, immutables) or
\* resolverContract.cancel(side, escrow, immutables)
ResolverBuild ==
    /\ Len(routeIn) > 0
    /\ Len(routeOut) = 0
    /\ routeOut' =
         IF routeIn[1].op = "withdraw"
           THEN <<withdraw(resolverContract, routeIn[1].side,
                           getSrcEscrowAddress(routeIn[1].immutables),
                           routeIn[1].secret, routeIn[1].immutables)>>
           ELSE <<cancel(resolverContract, routeIn[1].side,
                         getSrcEscrowAddress(routeIn[1].immutables),
                         routeIn[1].immutables)>>
    /\ UNCHANGED routeIn
    /\ UNCHANGED <<coreVars, verifyOut, eventVars, regtestVars, factoryVars>>

RouteInit ==
    /\ wall = 0
    /\ blockTime = AnvilBlockTime
    /\ offsets = TimeLocksNew
    /\ secret = 1
    /\ makerPc = "start"
    /\ hashLockSecret = 0
    /\ order = <<>>
    /\ orderFile = <<>>
    /\ takerPc = "start"
    /\ orderData = <<>>
    /\ srcEscrowEvent = <<>>
    /\ srcEscrowAddress = <<>>
    /\ sleepLeft = 0
    /\ srcEscrow = NoEscrow
    /\ dstEscrow = NoEscrow
    /\ txLog = {}
    /\ wdSubmit = <<>>
    /\ hashIn = <<0, 0>>
    /\ hashOut = <<>>
    /\ RunAtRest
    /\ DeployAtRest
    /\ verifyOut = <<>>
    /\ EventAtRest
    /\ RegtestAtRest
    /\ FactoryAtRest
    /\ routeIn \in {<<in>> : in \in RouteInputs}
    /\ routeOut = <<>>

RouteNext == ResolverBuild

RouteSpec == RouteInit /\ [][RouteNext]_vars

---------------------------------------------------------------------------
(* The regtest node: bitcoin/scripts/start_regtest.sh and stop_bitcoind.sh *)

\* BLOCK_COUNTER=0 at the start of bitcoin_automine.sh; `mined` counts the
\* generatetoaddress calls that mined a block, `rewards` the sendmany calls.
NewLoop == [counter |-> 0, mined |-> 0, rewards |-> 0]

\* One pass of the while loop with the daemon seen running: the result of
\* generatetoaddress is discarded, BLOCK_COUNTER is incremented, and the
\* reward is sent when BLOCK_COUNTER is a multiple of 10.
AutomineStep(l, mineOk) ==
    LET c == l.counter + 1 IN
    [ counter |-> c,
      mined   |-> l.mined + (IF mineOk THEN 1 ELSE 0),
      rewards |-> l.rewards + (IF c % RewardEvery = 0 THEN 1 ELSE 0) ]

\* The sequence without its i-th element.
RemoveAt(seq, i) == SubSeq(seq, 1, i - 1) \o SubSeq(seq, i + 1, Len(seq))

\* How a run of start_regtest.sh past the already-running check can end: the
\* node answers and the script completes, the daemon is up but a later
\* command ends the script (set -e, or the status check fails), or bitcoind
\* does not start.
StartOutcomes == {"ready", "aborted", "failed"}

\* scripts/start_regtest.sh, with AUTOMINE true or false.
StartRegtest ==
    /\ startCalls < MaxStarts
    /\ startCalls' = startCalls + 1
    /\ IF daemons > 0
         THEN UNCHANGED <<daemons, loops, setupRuns>>
         ELSE \E outcome \in StartOutcomes, automine \in BOOLEAN :
                /\ daemons' = IF outcome = "failed" THEN daemons ELSE daemons + 1
                /\ setupRuns' = IF outcome = "ready" THEN setupRuns + 1 ELSE setupRuns
                /\ loops' = IF outcome = "ready" /\ automine
                              THEN Append(loops, NewLoop)
                              ELSE loops
    /\ UNCHANGED <<coreVars, verifyOut, eventVars, factoryVars, routeVars>>

\* The daemon ends without stop_bitcoind.sh.
DaemonCrash ==
    /\ daemons > 0
    /\ daemons' = daemons - 1
    /\ UNCHANGED <<loops, startCalls, setupRuns>>
    /\ UNCHANGED <<coreVars, verifyOut, eventVars, factoryVars, routeVars>>

\* bitcoin_automine.sh: the i-th loop wakes from its sleep.
AutomineIteration(i) ==
    /\ i \in 1..Len(loops)
    /\ daemons = 0 \/ loops[i].counter < MaxIterations
    /\ IF daemons > 0
         THEN \E mineOk \in BOOLEAN :
                loops' = [loops EXCEPT ![i] = AutomineStep(@, mineOk)]
         ELSE loops' = RemoveAt(loops, i)
    /\ UNCHANGED <<daemons, startCalls, setupRuns>>
    /\ UNCHANGED <<coreVars, verifyOut, eventVars, factoryVars, routeVars>>

\* scripts/stop_bitcoind.sh: kill the automine process, stop the daemon,
\* pkill every remaining bitcoin_automine.sh.
StopBitcoind ==
    /\ daemons > 0 \/ Len(loops) > 0
    /\ daemons' = 0
    /\ loops' = <<>>
    /\ UNCHANGED <<startCalls, setupRuns>>
    /\ UNCHANGED <<coreVars, verifyOut, eventVars, factoryVars, routeVars>>

RegtestInit ==
    /\ wall = 0
    /\ blockTime = AnvilBlockTime
    /\ offsets = TimeLocksNew
    /\ secret = 1
    /\ makerPc = "start"
    /\ hashLockSecret = 0
    /\ order = <<>>
    /\ orderFile = <<>>
    /\ takerPc = "start"
    /\ orderData = <<>>
    /\ srcEscrowEvent = <<>>
    /\ srcEscrowAddress = <<>>
    /\ sleepLeft = 0
    /\ srcEscrow = NoEscrow
    /\ dstEscrow = NoEscrow
    /\ txLog = {}
    /\ wdSubmit = <<>>
    /\ hashIn = <<0, 0>>
    /\ hashOut = <<>>
    /\ AuxInit

RegtestNext ==
    \/ StartRegtest
    \/ DaemonCrash
    \/ \E i \in 1..MaxStarts : AutomineIteration(i)
    \/ StopBitcoind

RegtestSpec == RegtestInit /\ [][RegtestNext]_vars

---------------------------------------------------------------------------
(* The hash check: hash-check script of 1inch/src *)

\* obtainedHash = HashLock.hashSecret(secret)
HashCommit ==
    /\ Len(hashOut) = 0
    /\ hashOut' = <<forSingleFill(hashIn[1])>>
    /\ UNCHANGED <<hashIn, protoVars, auxVars, deployVars, toolVars>>

\* obtainedHash !== expectedHash, for a presented secret
HashVerify ==
    /\ Len(hashOut) = 1
    /\ hashOut' = <<hashOut[1], verify(hashOut[1], hashIn[2])>>
    /\ UNCHANGED <<hashIn, protoVars, auxVars, deployVars, toolVars>>

HashInit ==
    /\ wall = 0
    /\ blockTime = AnvilBlockTime
    /\ offsets = TimeLocksNew
    /\ secret = 1
    /\ makerPc = "start"
    /\ hashLockSecret = 0
    /\ order = <<>>
    /\ orderFile = <<>>
    /\ takerPc = "start"
    /\ orderData = <<>>
    /\ srcEscrowEvent = <<>>
    /\ srcEscrowAddress = <<>>
    /\ sleepLeft = 0
    /\ srcEscrow = NoEscrow
    /\ dstEscrow = NoEscrow
    /\ txLog = {}
    /\ wdSubmit = <<>>
    /\ hashIn \in HashSecrets \X HashSecrets
    /\ hashOut = <<>>
    /\ AuxInit

HashNext == HashCommit \/ HashVerify

HashSpec == HashInit /\ [][HashNext]_vars

---------------------------------------------------------------------------
(* Claims *)

\* Both escrows are in a final state and the taker has ended.
Terminal ==
    /\ takerPc \in {"done", "failed"}
    /\ srcEscrow.state \in {"Withdrawn", "Cancelled"}
    /\ dstEscrow.state \in {"none", "Withdrawn", "Cancelled"}

\* C1: atomicity.  In every terminal state the pair (source, destination) is
\* (Withdrawn, Withdrawn), (Cancelled, Cancelled) or (Cancelled, never
\* funded); never one side Withdrawn with the other Cancelled or unfunded.
C1_Atomicity ==
    Terminal =>
        <<srcEscrow.state, dstEscrow.state>> \in
            { <<"Withdrawn", "Withdrawn">>,
              <<"Cancelled", "Cancelled">>,
              <<"Cancelled", "none">> }

\* C2: reveal ordering.  The taker submits the source withdrawal only in a
\* state where the destination escrow has been funded.
C2_RevealOrdering ==
    Len(wdSubmit) > 0 => wdSubmit[1].dstState # "none"

\* The secret has been written to an outward channel: the order.json
\* handoff file or a submitted withdraw transaction.
SecretDisclosed ==
    \/ Len(orderFile) > 0
    \/ <<"taker", "withdraw">> \in txLog

\* C3: no premature disclosure.  The secret is on no outward channel while
\* the destination escrow has not been funded.
C3_NoPrematureDisclosure ==
    SecretDisclosed => dstEscrow.state # "none"

\* Each funded escrow has been withdrawn or cancelled.
Settled ==
    /\ srcEscrow.state # "Funded"
    /\ dstEscrow.state # "Funded"

\* C4: eventual settlement.  Once the source escrow is Funded, the swap
\* eventually reaches a state where no escrow is left Funded.
C4_EventualSettlement ==
    (srcEscrow.state = "Funded") ~> Settled

\* C5: idempotent terminal transitions.  The withdraw step submits no
\* transaction for a source escrow that is already Withdrawn or Cancelled.
C5_IdempotentTerminal ==
    Len(wdSubmit) > 0 => wdSubmit[1].srcState \notin {"Withdrawn", "Cancelled"}

\* C6: per-side time-lock ordering.  Every order the maker constructs, and
\* the fill calldata it records, has withdrawal < publicWithdrawal <
\* cancellation on the source side and on the destination side.
C6_TimeLockOrdering ==
    /\ Len(order) > 0 => Ordered(order[1].timeLocks)
    /\ Len(orderFile) > 0 => Ordered(orderFile[1].resolverTxnData.timeLocks)

\* The maker has built an order and written order.json.
C6_Witness ==
    /\ makerPc = "done"
    /\ Len(order) > 0
    /\ Len(orderFile) > 0

\* C7: cross-side cancellation ordering.  While both escrows are Funded the
\* destination's absolute cancellation start is no later than the source's.
C7_CrossSideCancellation ==
    (srcEscrow.state = "Funded" /\ dstEscrow.state = "Funded") =>
        DstCancellationStart(dstEscrow) <= SrcCancellationStart(srcEscrow)

C10_WithdrawalWindow ==
    Len(wdSubmit) > 0 => wdSubmit[1].windowOpen

C12_RefundWithoutDestination ==
    (dstEscrow.state = "none" /\ srcEscrow.state \notin {"none", "Funded"}) =>
        /\ srcEscrow.state = "Cancelled"
        /\ <<"taker", "withdraw">> \notin txLog

\* C13: happy path.  When the taker ran to its end without a failure and
\* submitted the source withdrawal with both escrows Funded, a destination
\* escrow that has left Funded is Withdrawn, by a withdrawal that presented
\* the secret of the source withdrawal.
C13_HappyPath ==
    ( /\ takerPc = "done"
      /\ Len(wdSubmit) > 0
      /\ wdSubmit[1].dstState = "Funded"
      /\ dstEscrow.state # "Funded" ) =>
        /\ dstEscrow.state = "Withdrawn"
        /\ dstSecret = <<orderData[1].secret>>

\* C14: hash-lock uniqueness.  No two distinct orders built over any
\* sequence of maker runs carry the same hash lock.
C14_HashLockUnique ==
    \A i, j \in 1..Len(orders) :
        i # j => orders[i].hashLock # orders[j].hashLock

\* The execution is past its fill: the fill was accepted.
PastFill(pc) == pc \in {"filled", "sleep", "withdrawSent", "done"}

InFlight1 == takerPc = "withdrawSent"
InFlight2 == taker2.pc \in {"fillSent", "withdrawSent"}

\* C16: no concurrent actions on one escrow.  Two transactions against the
\* source escrow are never in flight together, and two executions on the same
\* order.json do not both submit a withdrawal.
C16_NoConcurrentActions ==
    /\ ~(InFlight1 /\ InFlight2)
    /\ ~(<<"taker", "withdraw">> \in txLog /\ <<"taker2", "withdraw">> \in txLog)

\* The taker holds the secret: it read it from order.json.
TakerHoldsSecret ==
    /\ Len(orderData) > 0
    /\ verify(orderData[1].resolverTxnData.hashLock, orderData[1].secret)

\* C17: abort on source funding failure.  When the taker has ended at its
\* fill with no source escrow created, it has submitted no withdrawal and
\* the secret has not reached it or any outward channel.
C17_AbortOnFundingFailure ==
    (takerPc = "failed" /\ Len(orderData) > 0 /\ srcEscrow.state = "none") =>
        /\ <<"taker", "withdraw">> \notin txLog
        /\ ~TakerHoldsSecret
        /\ ~SecretDisclosed

\* C18: chain unavailability is retried.  No step ends the taker on an
\* unreachable ledger while an escrow is Funded.
C18_ChainUnavailableRetried ==
    [][ ( /\ takerPc # "failed"
          /\ takerPc' = "failed"
          /\ takerError' = "ChainUnavailable" ) =>
            /\ srcEscrow.state # "Funded"
            /\ dstEscrow.state # "Funded" ]_vars

\* C19: MeshSwap.deployContract never sends a transaction.  It ends with
\* 'Signer required for contract deployment' on an instance built without a
\* private key and with 'Contract deployment implementation needed' on one
\* built with a private key, whatever the contract name and arguments.
C19_MeshSwapDeployRejects ==
    (Len(deployOut) > 0 /\ deployOut[1].by = "MeshSwap") =>
        /\ deployOut[1].txs = 0
        /\ ~deployOut[1].factoryBuilt
        /\ privateKey = "undefined" =>
              deployOut[1].error = "Signer required for contract deployment"
        /\ privateKey = "valid" =>
              deployOut[1].error = "Contract deployment implementation needed"

\* deployContract was called on an instance without a signer.
C19_Witness ==
    /\ Len(deployOut) > 0
    /\ deployOut[1].by = "MeshSwap"
    /\ privateKey = "undefined"
    /\ contractName = "Resolver"
    /\ Len(constructorArgs) = MaxArgs
    /\ deployOut[1].error = "Signer required for contract deployment"

\* C20: ContractDeployer.deployContract fails fast on a missing artifact.
\* For a contract name with no artifact file it ends with 'Contract artifact
\* not found', with no factory built and no deployment transaction sent.
C20_MissingArtifactFailsFast ==
    ( /\ Len(deployOut) > 0
      /\ deployOut[1].by = "ContractDeployer"
      /\ contractName \notin artifacts ) =>
        /\ deployOut[1].error = "Contract artifact not found"
        /\ ~deployOut[1].factoryBuilt
        /\ deployOut[1].txs = 0

\* deployContract was called for a name without an artifact while other
\* artifacts exist.
C20_Witness ==
    /\ Len(deployOut) > 0
    /\ deployOut[1].by = "ContractDeployer"
    /\ contractName = "NonExistentContract"
    /\ artifacts = {"EscrowFactory", "Resolver"}
    /\ deployOut[1].error = "Contract artifact not found"

\* C21: ContractDeployer.verifyDeployment never rejects: whether the call of
\* the named contract function resolves or rejects, the function is called
\* exactly once and verifyDeployment resolves with undefined.
C21_VerifyNeverRejects ==
    Len(verifyOut) > 0 =>
        /\ ~verifyOut[1].rejected
        /\ verifyOut[1].value = "undefined"
        /\ verifyOut[1].call \in {"resolves", "rejects"} => verifyOut[1].calls = 1

\* The call of the contract function rejected and verifyDeployment returned.
C21_Witness ==
    /\ Len(verifyOut) > 0
    /\ verifyOut[1].call = "rejects"
    /\ verifyOut[1].calls = 1
    /\ verifyOut[1].console = "error"
\* C22: while the daemon runs, an automine loop has sent the 0.1 BTC reward
\* exactly once per 10 blocks it has mined, also when single mining calls
\* failed.
C22_AutomineRewards ==
    \A i \in 1..Len(loops) : loops[i].rewards = loops[i].mined \div RewardEvery
\* C29: after any sequence of start_regtest.sh runs, stop_bitcoind.sh runs and
\* daemon crashes, at most one regtest daemon and at most one automine loop
\* are running.
C29_SingleRegtestInstance == daemons <= 1 /\ Len(loops) <= 1
\* C23: the immutables the taker passes to the source withdraw are exactly
\* the immutables it decoded from the SrcEscrowCreated event and computed the
\* source escrow address from, unchanged between the two uses.
C23_ExactImmutables ==
    /\ Len(srcEscrowAddress) > 0 =>
          /\ Len(srcEscrowEvent) > 0
          /\ srcEscrowAddress[1] = getSrcEscrowAddress(srcEscrowEvent[1])
    /\ Len(wdSubmit) > 0 =>
          /\ wdSubmit[1].immutables = srcEscrowAddress[1].of
          /\ wdSubmit[1].immutables = srcEscrowEvent[1]
          /\ wdSubmit[1].escrow = srcEscrowAddress[1]

\* The taker sent the withdrawal of an escrow created after time 0.
C23_Witness ==
    /\ Len(wdSubmit) > 0
    /\ takerPc = "done"
    /\ wdSubmit[1].immutables.deployedAt > 0
    /\ wdSubmit[1].immutables = getSrcDeployEvent(srcEscrow)
\* C24: when several swaps are filled in the same block, the taker recovers
\* the immutables of the escrow created by its own fill: the order hash of
\* the event it decoded is the hash of its order.
C24_OwnEscrow ==
    Len(eventTaker.event) > 0 => eventTaker.event[1].orderHash = ownOrder.orderHash

\* C27: the taker goes on to the withdrawal only if the order hash, the
\* amount and the recipient of the created escrow reported by the chain equal
\* the terms recorded for its order.
C27_FundingGuard ==
    eventTaker.pc = "withdrawSent" =>
        /\ eventTaker.event[1].orderHash = ownOrder.orderHash
        /\ eventTaker.event[1].amount = ownOrder.amount
        /\ eventTaker.event[1].taker = ownOrder.taker
\* C28: for all pairs of constructor arguments, the EscrowFactory uses
\* rescueDelaySrc as the rescue delay of source escrows and rescueDelayDst as
\* the rescue delay of destination escrows.
C28_RescueDelays ==
    Len(factory) > 0 =>
        /\ factory[1].srcRescueDelay = rescueArgs[1]
        /\ factory[1].dstRescueDelay = rescueArgs[2]
\* C30: every transaction built by Resolver.withdraw or Resolver.cancel is
\* addressed to the resolver contract of the named side, and with the
\* configuration of the maker and the taker that address is a deployed
\* resolver contract, never the zero address.
C30_SideRouting ==
    Len(routeOut) > 0 =>
        /\ routeOut[1].to = IF routeIn[1].side = "src"
                               THEN CONFIG.contracts.resolverContract
                               ELSE CONFIG.contracts.resolverBitcoinContract
        /\ routeOut[1].to # ZeroAddress
\* What the taker holds and has sent agrees with what it read from
\* order.json: the escrow was created by the recorded resolverTxnData, the
\* withdrawal carries the recorded secret, and the recorded secret opens the
\* hash lock bound into the recorded order.
HandoffConsistent ==
    /\ Len(orderFile) > 0 =>
          verify(orderFile[1].resolverTxnData.hashLock, orderFile[1].secret)
    /\ Len(orderData) > 0 =>
          verify(orderData[1].resolverTxnData.hashLock, orderData[1].secret)
    /\ srcEscrow.state # "none" =>
          /\ srcEscrow.hashLock = orderData[1].resolverTxnData.hashLock
          /\ srcEscrow.timeLocks = orderData[1].resolverTxnData.timeLocks
    /\ Len(wdSubmit) > 0 =>
          /\ wdSubmit[1].secret = orderData[1].secret
          /\ verify(srcEscrow.hashLock, wdSubmit[1].secret)

\* C26: for every maker run followed by a taker run, the taker fills with
\* exactly the resolverTxnData the maker recorded in order.json and withdraws
\* with exactly the recorded secret, and that secret satisfies
\* verify(HashLock, secret) for the HashLock the maker bound into the order.
C26_HandoffConsistency ==
    /\ []HandoffConsistent
    /\ [][orderData' # orderData => orderData' = orderFile]_vars

\* The taker withdrew with the secret it had read, after a later maker run
\* had replaced order.json by an order with another secret.
C26_Witness ==
    /\ takerPc = "done"
    /\ srcEscrow.state = "Withdrawn"
    /\ Len(orders) >= 2
    /\ orderFile[1].secret # orderData[1].secret
\* The absolute time locks of an escrow.
SrcAbsolute(e) == <<SrcWithdrawalStart(e), SrcCancellationStart(e)>>
DstAbsolute(e) == <<DstWithdrawalStart(e), DstCancellationStart(e)>>

====
